---------------------------- MODULE Spec2Model ----------------------------
(***************************************************************************)
(* A model of weirdgiraffe/promise: the Promise (a write-once result-or-   *)
(* error guarded by a done channel), the Executor (a worker pool draining  *)
(* a buffered channel of tasks, with a stop channel), the calls that wait  *)
(* for a Promise (Result, ResultWithContext, Canceled) and the combinators *)
(* WhenAll and WhenAny.                                                    *)
(*                                                                         *)
(* Goroutines are interleaved at the granularity of the memory and channel *)
(* operations the source performs: a select, a field write, a close.       *)
(***************************************************************************)
EXTENDS Naturals, Sequences, FiniteSets

(***************************************************************************)
(* Bounds of the model.                                                    *)
(***************************************************************************)
\* goroutines that call Resolve / Reject / Cancel on the one Promise
NumCallers == 2
\* calls made on the one Promise, over all callers
MaxCalls == 2
\* goroutines that call Result() on the one Promise
NumReaders == 1
\* StartExecutor(Concurrency, MaxPending): the workers and the queue capacity
Concurrency == 1
MaxPending == 1
\* Exec calls made on the Executor, each from its own goroutine
MaxTasks == 3
\* goroutines that call Stop() on the Executor
NumStoppers == 2
\* the longest list of input Promises given to WhenAll / WhenAny
NumInputs == 3

(***************************************************************************)
(* Values.  Nil is Go's nil (and the zero value of T in the generic         *)
(* Promise[T]).                                                             *)
(***************************************************************************)
Nil == "nil"
ErrCanceled == "ErrCanceled"
ErrExecutorStopped == "ErrExecutorStopped"
Values == {"a", "b"}
UserErrs == {"e"}
None == [v |-> "none", e |-> "none"]

Callers == 1..NumCallers
Readers == 1..NumReaders
\* the worker goroutines a pool may start: Concurrency of them, or one more
Workers == 1..(Concurrency + 1)
Tasks == 1..MaxTasks
Stoppers == 1..NumStoppers

VARIABLES
  panicked   \* a goroutine panicked (close of a closed channel): the process is dead

VARIABLES
  \* ---- the Promise under concurrent finalization -----------------------
  impl,      \* which Promise: "finalize" (promise.go) or "generic" (Promise[T])
  done,      \* p.done is closed
  res,       \* p.res / p.result
  err,       \* p.err
  cpc,       \* caller -> its position inside Resolve/Reject
  carg,      \* caller -> the (v, err) of its call in flight
  ncalls,    \* calls begun so far
  rpc,       \* reader -> its position inside Result()
  rgot,      \* reader -> the (value, error) pair it has read so far
  \* history of the calls, for the claims
  firstRet,  \* the (v, err) of the first call that returned, None before
  raced,     \* a second call began before any call had returned
  late       \* caller -> its call in flight began after some call had returned

pvars == <<impl, done, res, err, cpc, carg, ncalls, rpc, rgot,
           firstRet, raced, late>>

VARIABLES
  \* ---- the Executor ---------------------------------------------------
  conc,      \* StartExecutor's concurrency: the workers started
  capacity,  \* StartExecutor's maxPendingPromises: cap(e.promCh)
  stopCh,    \* e.stopCh is closed
  promCh,    \* the buffer of e.promCh: the tasks queued, oldest first
  sendq,     \* the Exec calls parked in their send on a full e.promCh, oldest first
  wpc,       \* worker -> its position in the worker loop
  wtask,     \* worker -> the task it took from e.promCh (0: none)
  epc,       \* task -> the position of the Exec call that submits it
  fn,        \* task -> what its function returned, as (res, err); None until it returns
  prom,      \* task -> the Promise bound to it
  spc,       \* stopper -> its position inside Stop()
  \* history of the run, for the claims
  ranAfterStop, \* the tasks whose function was invoked after close(e.stopCh)
  lateExec,  \* task -> its Exec call began after a Stop call had returned
  closer,    \* the stopper that closed e.stopCh (0: none yet)
  atStop     \* what close(e.stopCh) found: the Exec calls parked, whether every
             \* worker was running a task, and if so the tasks queued and in flight

evars == <<conc, capacity, stopCh, promCh, sendq, wpc, wtask, epc, fn, prom, spc,
           ranAfterStop, lateExec, closer, atStop>>

VARIABLES
  \* ---- one Promise, its task and the goroutines that wait for it ---------
  tpc,       \* the goroutine that runs the task: its position
  tfn,       \* what the task's function returned, as (res, err); None until it returns
  ctxErr,    \* ctx.Err(): Nil until the context is done
  xpc,       \* the ResultWithContext call: its position
  xgot,      \* the (value, error) pair the ResultWithContext call returns
  qpc,       \* the Canceled() call: its position
  qgot,      \* what the last Canceled() call returned
  rprev,     \* what the first Result() call that was followed by another returned
  \* history of the run, for the claims
  ctxFirst,  \* the context was done while the Promise was still pending
  xearly     \* the ResultWithContext call began while the Promise was still pending

avars == <<tpc, tfn, ctxErr, xpc, xgot, qpc, qgot, rprev, ctxFirst, xearly>>

VARIABLES
  \* ---- WhenAll / WhenAny over a list of input Promises -------------------
  kind,      \* the combinator called: "all" (WhenAll) or "any" (WhenAny)
  kn,        \* len(p): the number of input Promises
  inp,       \* i -> the input Promise p[i]
  comp,      \* np: the composite Promise that Exec returned
  kpc,       \* the position of the composite's task
  kidx,      \* the loop variable i of the combinator's function (from 1)
  kl,        \* WhenAll's l: the values collected
  kerr,      \* WhenAny's err: the error of the input it read last
  \* history of the run, for the claims
  iown,      \* i -> what the task of p[i] finalized it with, None before
  kleft      \* the inputs that were pending when the combinator's function returned

kvars == <<kind, kn, inp, comp, kpc, kidx, kl, kerr, iown, kleft>>

VARIABLES
  \* ---- the Runner (its workers, queue and submissions are the Executor's
  \*      variables above) --------------------------------------------------
  promClosed, \* r.promises is closed
  crash,     \* the operation that panicked, "" while none has
  \* ---- the callbacks of a Promise ----------------------------------------
  cbcount,   \* how many times the callbacks of the Promise were run
  cbargs,    \* the (res, err) the callbacks were last run with, None before
  \* ---- CancelAll / RejectAll over the list of Promises inp ----------------
  awas,      \* i -> the Promise p[i] as the loop found it (New until then)
  \* ---- tasks of an Executor that are combinators over earlier tasks ------
  tkind,     \* task -> "plain", "all" (WhenAll) or "any" (WhenAny)
  tdeps      \* task -> the tasks whose Promises are its inputs, in index order

rvars == <<promClosed, crash>>
cvars == <<cbcount, cbargs>>
lvars == <<awas>>
dvars == <<tkind, tdeps>>
yvars == <<rvars, cvars, lvars, dvars>>

\* Everything that is neither the racing callers' Promise nor the Executor.
xvars == <<avars, kvars, yvars>>

vars == <<panicked, pvars, evars, xvars>>

(***************************************************************************)
(* Promise                                                                 *)
(***************************************************************************)
\* New(): an open done channel, zero res and err.
New == [done |-> FALSE, res |-> Nil, err |-> Nil]

\* The arguments finalize receives from each entry point.
Resolve(v) == [v |-> v, e |-> Nil]
Reject(e) == [v |-> Nil, e |-> e]
Cancel == Reject(ErrCanceled)

CallArgs == {Resolve(v) : v \in Values} \cup {Reject(e) : e \in UserErrs} \cup {Cancel}

\* A goroutine enters Resolve, Reject or Cancel.
Call(c) ==
  /\ ~panicked
  /\ cpc[c] = "idle"
  /\ ncalls < MaxCalls
  /\ \E a \in CallArgs : carg' = [carg EXCEPT ![c] = a]
  /\ cpc' = [cpc EXCEPT ![c] = "select"]
  /\ ncalls' = ncalls + 1
  /\ late' = [late EXCEPT ![c] = (firstRet # None)]
  /\ raced' = (raced \/ (firstRet = None /\ ncalls >= 1))
  /\ UNCHANGED <<evars, xvars>>
  /\ UNCHANGED <<impl, done, res, err, panicked, rpc, rgot, firstRet>>

\* Where a call goes after `default:` of its select: finalize writes res
\* first; the generic Resolve writes result, the generic Reject writes err.
finalizeDefault(c) ==
  IF impl = "finalize" THEN "write_res"
  ELSE IF carg[c].e = Nil THEN "write_res" ELSE "write_err"

\* A select that takes `default:` whether or not done is closed.
finalizeSelectUnchecked(c) ==
  /\ cpc' = [cpc EXCEPT ![c] = finalizeDefault(c)]
  /\ UNCHANGED <<carg, late>>

\* A select whose done case does not return: the call goes on to the
\* code after the select.
finalizeSelectFallsThrough(c) ==
  IF done
    THEN /\ cpc' = [cpc EXCEPT ![c] = "callbacks"]
         /\ UNCHANGED <<carg, late>>
    ELSE /\ cpc' = [cpc EXCEPT ![c] = finalizeDefault(c)]
         /\ UNCHANGED <<carg, late>>

\* select { case <-p.Done(): return; default: ... }
finalizeSelect(c) ==
  IF done
    THEN /\ cpc' = [cpc EXCEPT ![c] = "idle"]
         /\ carg' = [carg EXCEPT ![c] = None]
         /\ late' = [late EXCEPT ![c] = FALSE]
    ELSE /\ cpc' = [cpc EXCEPT ![c] = finalizeDefault(c)]
         /\ UNCHANGED <<carg, late>>

Select(c) ==
  /\ ~panicked
  /\ cpc[c] = "select"
  /\ finalizeSelect(c)
  /\ UNCHANGED <<evars, xvars>>
  /\ UNCHANGED <<impl, done, res, err, panicked, ncalls, rpc, rgot, firstRet, raced>>

\* p.res = v
WriteRes(c) ==
  /\ ~panicked
  /\ cpc[c] = "write_res"
  /\ res' = carg[c].v
  /\ cpc' = [cpc EXCEPT ![c] = IF impl = "finalize" THEN "write_err" ELSE "close"]
  /\ UNCHANGED <<evars, xvars>>
  /\ UNCHANGED <<impl, done, err, panicked, carg, ncalls, rpc, rgot, firstRet, raced, late>>

\* p.err = err
WriteErr(c) ==
  /\ ~panicked
  /\ cpc[c] = "write_err"
  /\ err' = carg[c].e
  /\ cpc' = [cpc EXCEPT ![c] = "close"]
  /\ UNCHANGED <<evars, xvars>>
  /\ UNCHANGED <<impl, done, res, panicked, carg, ncalls, rpc, rgot, firstRet, raced, late>>

\* close(p.done), then return.  Closing a closed channel panics.
Close(c) ==
  /\ ~panicked
  /\ cpc[c] = "close"
  /\ IF done
       THEN /\ panicked' = TRUE
            /\ UNCHANGED <<done, cpc, carg, firstRet, late>>
       ELSE /\ done' = TRUE
            /\ cpc' = [cpc EXCEPT ![c] = "idle"]
            /\ firstRet' = IF firstRet = None THEN carg[c] ELSE firstRet
            /\ carg' = [carg EXCEPT ![c] = None]
            /\ late' = [late EXCEPT ![c] = FALSE]
            /\ UNCHANGED panicked
  /\ UNCHANGED <<evars, xvars>>
  /\ UNCHANGED <<impl, res, err, ncalls, rpc, rgot, raced>>

\* A Result() that does not wait for p.done.
ResultAwaitUnblocked(r) ==
  /\ ~panicked
  /\ rpc[r] = "await"
  /\ rpc' = [rpc EXCEPT ![r] = "read_res"]
  /\ UNCHANGED <<evars, xvars>>
  /\ UNCHANGED <<impl, done, res, err, panicked, cpc, carg, ncalls, rgot, firstRet, raced, late>>

\* Result(): <-p.Done()
ResultAwait(r) ==
  /\ ~panicked
  /\ rpc[r] = "await"
  /\ done
  /\ rpc' = [rpc EXCEPT ![r] = "read_res"]
  /\ UNCHANGED <<evars, xvars>>
  /\ UNCHANGED <<impl, done, res, err, panicked, cpc, carg, ncalls, rgot, firstRet, raced, late>>

\* Result(): return p.res, p.err -- the two fields are read one after the other
ResultReadRes(r) ==
  /\ ~panicked
  /\ rpc[r] = "read_res"
  /\ rgot' = [rgot EXCEPT ![r].v = res]
  /\ rpc' = [rpc EXCEPT ![r] = "read_err"]
  /\ UNCHANGED <<evars, xvars>>
  /\ UNCHANGED <<impl, done, res, err, panicked, cpc, carg, ncalls, firstRet, raced, late>>

ResultReadErr(r) ==
  /\ ~panicked
  /\ rpc[r] = "read_err"
  /\ rgot' = [rgot EXCEPT ![r].e = err]
  /\ rpc' = [rpc EXCEPT ![r] = "ret"]
  /\ UNCHANGED <<evars, xvars>>
  /\ UNCHANGED <<impl, done, res, err, panicked, cpc, carg, ncalls, firstRet, raced, late>>


(***************************************************************************)
(* Executor                                                                *)
(*                                                                         *)
(* e.promCh is a buffered channel: a send parks only while the buffer is   *)
(* full, a receive only while it is empty.  A goroutine parked in a select *)
(* is resumed by the first channel operation that serves one of its cases, *)
(* and that operation decides the case it takes; a goroutine that comes to *)
(* a select with several cases ready takes any one of them.                *)
(***************************************************************************)
\* p.finalize(v, err), run with no other finalizer of p in flight.
finalize(p, v, e) == IF p.done THEN p ELSE [done |-> TRUE, res |-> v, err |-> e]

\* What a task function may return.
FnOutcomes == {Resolve("a"), Reject("e")}

Started(w) == w <= conc
Parked == {w \in Workers : wpc[w] = "parked"}
StopReturned == \E s \in Stoppers : spc[s] = "ret"

\* A send that puts the task ahead of the tasks already buffered.
SendPromChFront(t) == promCh' = <<t>> \o promCh

\* e.promCh <- ep with room in the buffer: the task goes behind the others.
SendPromCh(t) == promCh' = Append(promCh, t)

\* A receive that hands out the oldest task and leaves it in the buffer.
RecvPromChKeeps ==
  /\ UNCHANGED <<promCh, sendq, epc>>

\* A receive from a non-empty e.promCh: the oldest task leaves the buffer,
\* and the oldest parked sender, if any, puts its task in and resumes.
RecvPromCh ==
  /\ promCh' = IF sendq = <<>> THEN Tail(promCh) ELSE Append(Tail(promCh), Head(sendq))
  /\ sendq' = IF sendq = <<>> THEN sendq ELSE Tail(sendq)
  /\ epc' = IF sendq = <<>> THEN epc ELSE [epc EXCEPT ![Head(sendq)] = "ret"]

\* ---- the worker loop of StartExecutor ----------------------------------
\* A first select that never takes the stop case.
WorkerFirstSelectNoStop(w) == "select2"

\* select { case <-e.stopCh: return; default: }
WorkerFirstSelect(w) == IF stopCh THEN "exit" ELSE "select2"

WorkerSelect1(w) ==
  /\ ~panicked
  /\ Started(w)
  /\ wpc[w] = "select1"
  /\ wpc' = [wpc EXCEPT ![w] = WorkerFirstSelect(w)]
  /\ UNCHANGED <<panicked, pvars, xvars>>
  /\ UNCHANGED <<conc, capacity, stopCh, promCh, sendq, wtask, epc, fn, prom, spc,
                 ranAfterStop, lateExec, closer, atStop>>

\* select { case <-e.stopCh: return; case p := <-e.promCh: ... }
WorkerSelect2(w) ==
  /\ ~panicked
  /\ wpc[w] = "select2"
  /\ \/ /\ stopCh
        /\ wpc' = [wpc EXCEPT ![w] = "exit"]
        /\ UNCHANGED <<promCh, sendq, epc, wtask, ranAfterStop>>
     \/ /\ promCh # <<>>
        /\ RecvPromCh
        /\ wtask' = [wtask EXCEPT ![w] = Head(promCh)]
        /\ ranAfterStop' = IF stopCh THEN ranAfterStop \cup {Head(promCh)} ELSE ranAfterStop
        /\ wpc' = [wpc EXCEPT ![w] = "run"]
     \/ /\ ~stopCh
        /\ promCh = <<>>
        /\ wpc' = [wpc EXCEPT ![w] = "parked"]
        /\ UNCHANGED <<promCh, sendq, epc, wtask, ranAfterStop>>
  /\ UNCHANGED <<panicked, pvars, xvars>>
  /\ UNCHANGED <<conc, capacity, stopCh, fn, prom, spc, lateExec, closer, atStop>>

\* A worker that close(e.stopCh) resumed takes `case <-e.stopCh: return`.
WorkerWoken(w) ==
  /\ ~panicked
  /\ wpc[w] = "woken"
  /\ wpc' = [wpc EXCEPT ![w] = "exit"]
  /\ UNCHANGED <<panicked, pvars, xvars>>
  /\ UNCHANGED <<conc, capacity, stopCh, promCh, sendq, wtask, epc, fn, prom, spc,
                 ranAfterStop, lateExec, closer, atStop>>

\* A worker that rejects with an error of its own whenever the function fails.
WorkerFinalizeWrapped(p, f) ==
  IF f.e # Nil THEN finalize(p, Reject(ErrExecutorStopped).v, Reject(ErrExecutorStopped).e)
               ELSE finalize(p, Resolve(f.v).v, Resolve(f.v).e)

\* if err != nil { p.Reject(err) } else { p.Resolve(res) }
WorkerFinalize(p, f) ==
  IF f.e # Nil THEN finalize(p, Reject(f.e).v, Reject(f.e).e)
               ELSE finalize(p, Resolve(f.v).v, Resolve(f.v).e)

\* res, err := p.fn() returns, and the worker finalizes the Promise with it.
WorkerFinish(w) ==
  /\ ~panicked
  /\ wpc[w] = "run"
  /\ \E f \in FnOutcomes :
       LET t == wtask[w] IN
         /\ fn' = [fn EXCEPT ![t] = f]
         /\ prom' = [prom EXCEPT ![t] = WorkerFinalize(@, f)]
  /\ wpc' = [wpc EXCEPT ![w] = "select1"]
  /\ wtask' = [wtask EXCEPT ![w] = 0]
  /\ UNCHANGED <<panicked, pvars, xvars>>
  /\ UNCHANGED <<conc, capacity, stopCh, promCh, sendq, epc, spc,
                 ranAfterStop, lateExec, closer, atStop>>

\* ---- Executor.Exec -----------------------------------------------------
\* A first select that never takes the stop case.
ExecFirstSelectNoStop(t) ==
  /\ epc' = [epc EXCEPT ![t] = "select2"]
  /\ UNCHANGED prom

\* select { case <-e.stopCh: ep.Reject(ErrExecutorStopped); return ep.Promise; default: }
ExecFirstSelect(t) ==
  IF stopCh
    THEN /\ prom' = [prom EXCEPT ![t] = finalize(@, Reject(ErrExecutorStopped).v,
                                                  Reject(ErrExecutorStopped).e)]
         /\ epc' = [epc EXCEPT ![t] = "ret"]
    ELSE /\ epc' = [epc EXCEPT ![t] = "select2"]
         /\ UNCHANGED prom

\* Exec is called: ep := &executionPromise{Promise: New(), fn: fn}, then the
\* first select.  Nothing before that select touches the Executor.
ExecSelect1(t) ==
  /\ ~panicked
  /\ epc[t] = "new"
  /\ \A u \in Tasks : u < t => epc[u] # "new"
  /\ lateExec' = [lateExec EXCEPT ![t] = StopReturned]
  /\ ExecFirstSelect(t)
  /\ UNCHANGED <<panicked, pvars, xvars>>
  /\ UNCHANGED <<conc, capacity, stopCh, promCh, sendq, wpc, wtask, fn, spc,
                 ranAfterStop, closer, atStop>>

\* A stop case that returns the Promise as it is.
ExecRejectStoppedNot(t) == UNCHANGED prom

\* case <-e.stopCh: ep.Reject(ErrExecutorStopped)
ExecRejectStopped(t) ==
  prom' = [prom EXCEPT ![t] = finalize(@, Reject(ErrExecutorStopped).v,
                                       Reject(ErrExecutorStopped).e)]

\* select { case <-e.stopCh: ...; case e.promCh <- ep: }
\* A send goes straight to a parked worker when there is one.
ExecSelect2(t) ==
  /\ ~panicked
  /\ epc[t] = "select2"
  /\ \/ /\ stopCh
        /\ ExecRejectStopped(t)
        /\ epc' = [epc EXCEPT ![t] = "ret"]
        /\ UNCHANGED <<promCh, sendq, wpc, wtask, ranAfterStop>>
     \/ /\ Parked # {}
        /\ \E w \in Parked :
             /\ wpc' = [wpc EXCEPT ![w] = "run"]
             /\ wtask' = [wtask EXCEPT ![w] = t]
        /\ ranAfterStop' = IF stopCh THEN ranAfterStop \cup {t} ELSE ranAfterStop
        /\ epc' = [epc EXCEPT ![t] = "ret"]
        /\ UNCHANGED <<promCh, sendq, prom>>
     \/ /\ Parked = {}
        /\ Len(promCh) < capacity
        /\ SendPromCh(t)
        /\ epc' = [epc EXCEPT ![t] = "ret"]
        /\ UNCHANGED <<sendq, wpc, wtask, ranAfterStop, prom>>
     \/ /\ ~stopCh
        /\ Parked = {}
        /\ Len(promCh) >= capacity
        /\ sendq' = Append(sendq, t)
        /\ epc' = [epc EXCEPT ![t] = "parked"]
        /\ UNCHANGED <<promCh, wpc, wtask, ranAfterStop, prom>>
  /\ UNCHANGED <<panicked, pvars, xvars>>
  /\ UNCHANGED <<conc, capacity, stopCh, fn, spc, lateExec, closer, atStop>>

\* An Exec call that close(e.stopCh) resumed takes its stop case.
ExecStopped(t) ==
  /\ ~panicked
  /\ epc[t] = "stopped"
  /\ ExecRejectStopped(t)
  /\ epc' = [epc EXCEPT ![t] = "ret"]
  /\ UNCHANGED <<panicked, pvars, xvars>>
  /\ UNCHANGED <<conc, capacity, stopCh, promCh, sendq, wpc, wtask, fn, spc,
                 ranAfterStop, lateExec, closer, atStop>>

\* ---- Executor.Stop -----------------------------------------------------
\* select { case <-e.stopCh: return; default: }
\* Stop is called; the select is its first step.
StopSelect(s) ==
  /\ ~panicked
  /\ spc[s] = "idle"
  /\ \A u \in Stoppers : u < s => spc[u] # "idle"
  /\ spc' = [spc EXCEPT ![s] = IF stopCh THEN "ret" ELSE "close"]
  /\ UNCHANGED <<panicked, pvars, xvars>>
  /\ UNCHANGED <<conc, capacity, stopCh, promCh, sendq, wpc, wtask, epc, fn, prom,
                 ranAfterStop, lateExec, closer, atStop>>

\* close(e.stopCh): panics on a closed channel; otherwise every goroutine
\* parked in a select on e.stopCh resumes with its stop case.
StopClose(s) ==
  /\ ~panicked
  /\ spc[s] = "close"
  /\ IF stopCh
       THEN /\ panicked' = TRUE
            /\ UNCHANGED <<stopCh, sendq, wpc, epc, spc, closer, atStop>>
       ELSE /\ stopCh' = TRUE
            /\ wpc' = [w \in Workers |-> IF wpc[w] = "parked" THEN "woken" ELSE wpc[w]]
            /\ epc' = [t \in Tasks |-> IF epc[t] = "parked" THEN "stopped" ELSE epc[t]]
            /\ sendq' = <<>>
            /\ spc' = [spc EXCEPT ![s] = "wait"]
            /\ closer' = s
            /\ atStop' = LET busy == \A w \in Workers : Started(w) => wpc[w] = "run" IN
                          [queued   |-> IF busy THEN {promCh[i] : i \in 1..Len(promCh)} ELSE {},
                           inflight |-> IF busy THEN {wtask[w] : w \in {x \in Workers : Started(x)}} ELSE {},
                           blocked  |-> {sendq[i] : i \in 1..Len(sendq)},
                           allBusy  |-> busy]
            /\ UNCHANGED panicked
  /\ UNCHANGED <<pvars, xvars>>
  /\ UNCHANGED <<conc, capacity, promCh, wtask, fn, prom, ranAfterStop, lateExec>>

\* e.wg.Wait(): every worker has run its deferred e.wg.Done()
StopWait(s) ==
  /\ ~panicked
  /\ spc[s] = "wait"
  /\ \A w \in Workers : Started(w) => wpc[w] = "exit"
  /\ spc' = [spc EXCEPT ![s] = "drain"]
  /\ UNCHANGED <<panicked, pvars, xvars>>
  /\ UNCHANGED <<conc, capacity, stopCh, promCh, sendq, wpc, wtask, epc, fn, prom,
                 ranAfterStop, lateExec, closer, atStop>>

\* A cleanup loop without `default:`: it waits for the next item for ever.
StopDrainBlocking(s) ==
  /\ ~panicked
  /\ spc[s] = "drain"
  /\ promCh # <<>>
  /\ RecvPromCh
  /\ prom' = [prom EXCEPT ![Head(promCh)] =
                finalize(@, Reject(ErrExecutorStopped).v, Reject(ErrExecutorStopped).e)]
  /\ UNCHANGED spc
  /\ UNCHANGED <<panicked, pvars, xvars>>
  /\ UNCHANGED <<conc, capacity, stopCh, wpc, wtask, fn, ranAfterStop, lateExec, closer, atStop>>

\* for { select { case ep := <-e.promCh: ep.Reject(ErrExecutorStopped); default: return } }
StopDrain(s) ==
  /\ ~panicked
  /\ spc[s] = "drain"
  /\ IF promCh # <<>>
       THEN /\ RecvPromCh
            /\ prom' = [prom EXCEPT ![Head(promCh)] =
                          finalize(@, Reject(ErrExecutorStopped).v, Reject(ErrExecutorStopped).e)]
            /\ UNCHANGED spc
       ELSE /\ spc' = [spc EXCEPT ![s] = "ret"]
            /\ UNCHANGED <<promCh, sendq, epc, prom>>
  /\ UNCHANGED <<panicked, pvars, xvars>>
  /\ UNCHANGED <<conc, capacity, stopCh, wpc, wtask, fn, ranAfterStop, lateExec, closer, atStop>>

(***************************************************************************)
(* One Promise with its task, and the calls that wait for it               *)
(*                                                                         *)
(* The task runs on a goroutine of its own, which finalizes the Promise    *)
(* with what the function returned; other goroutines may call Resolve,     *)
(* Reject or Cancel meanwhile.  The finalizing calls are the steps Select, *)
(* WriteRes, WriteErr and Close above; the task's goroutine is the caller   *)
(* TaskCaller.                                                             *)
(***************************************************************************)
TaskCaller == 1
\* The goroutine that calls Resolve, Reject or Cancel from outside the task.
Outsider == 2

\* What ctx.Err() may be once the context is done.
CtxErrs == {"context.Canceled", "context.DeadlineExceeded"}

\* if err != nil { pr.Reject(err); return }; pr.Resolve(res)
FinalizeArgs(f) == IF f.e # Nil THEN Reject(f.e) ELSE Resolve(f.v)

\* The task's goroutine enters Reject or Resolve.
TaskCall(a) ==
  /\ cpc' = [cpc EXCEPT ![TaskCaller] = "select"]
  /\ carg' = [carg EXCEPT ![TaskCaller] = a]
  /\ ncalls' = ncalls + 1
  /\ late' = [late EXCEPT ![TaskCaller] = (firstRet # None)]
  /\ raced' = (raced \/ (firstRet = None /\ ncalls >= 1))
  /\ tpc' = "finalize"

\* ExecFn: select { case <-pr.Done(): return pr.res, pr.err; default: return pr.fn() }
\* A Promise that is done already hands its stored pair to Reject / Resolve,
\* whose select then drops it.  The generic Promise has no such select: its
\* task always runs.
TaskExecFn ==
  /\ ~panicked
  /\ tpc = "execfn"
  /\ IF impl = "finalize" /\ done
       THEN /\ TaskCall(FinalizeArgs([v |-> res, e |-> err]))
       ELSE /\ tpc' = "run"
            /\ UNCHANGED <<cpc, carg, ncalls, late, raced>>
  /\ UNCHANGED <<panicked, impl, done, res, err, rpc, rgot, firstRet>>
  /\ UNCHANGED <<tfn, ctxErr, xpc, xgot, qpc, qgot, rprev, ctxFirst, xearly>>
  /\ UNCHANGED <<evars, kvars, yvars>>

\* res, err := fn() returns, and the goroutine calls Reject or Resolve.
TaskReturn ==
  /\ ~panicked
  /\ tpc = "run"
  /\ \E f \in FnOutcomes :
       /\ tfn' = f
       /\ TaskCall(FinalizeArgs(f))
  /\ UNCHANGED <<panicked, impl, done, res, err, rpc, rgot, firstRet>>
  /\ UNCHANGED <<ctxErr, xpc, xgot, qpc, qgot, rprev, ctxFirst, xearly>>
  /\ UNCHANGED <<evars, kvars, yvars>>

\* The task's goroutine has returned from Reject / Resolve.
TaskDone == tpc = "finalize" /\ cpc[TaskCaller] = "idle"

\* The context is cancelled or its deadline passes: ctx.Done() is closed.
CtxDone ==
  /\ ~panicked
  /\ ctxErr = Nil
  /\ \E e \in CtxErrs : ctxErr' = e
  /\ ctxFirst' = ~done
  /\ UNCHANGED <<panicked, pvars, evars, kvars, yvars>>
  /\ UNCHANGED <<tpc, tfn, xpc, xgot, qpc, qgot, rprev, xearly>>

\* case <-ctx.Done(): return nil, ctx.Err()
RwcCtxCase ==
  /\ xpc' = "ret"
  /\ xgot' = [v |-> Nil, e |-> ctxErr]

\* ResultWithContext is called: select { case <-p.Done(): ...; case <-ctx.Done(): ... }
\* With neither channel ready the call parks.
RwcSelect ==
  /\ ~panicked
  /\ xpc = "idle"
  /\ xearly' = ~done
  /\ \/ /\ done
        /\ xpc' = "read_res"
        /\ UNCHANGED xgot
     \/ /\ ctxErr # Nil
        /\ RwcCtxCase
     \/ /\ ~done /\ ctxErr = Nil
        /\ xpc' = "parked"
        /\ UNCHANGED xgot
  /\ UNCHANGED <<panicked, pvars, evars, kvars, yvars>>
  /\ UNCHANGED <<tpc, tfn, ctxErr, qpc, qgot, rprev, ctxFirst>>

\* A parked call takes the done case as soon as p.done is closed, whatever
\* the context did first.
RwcWokenByUnordered == ctxErr # Nil /\ ~done

\* The parked call is resumed by the first of the two closes, which decides
\* its case: the context's when it came while the Promise was pending.
RwcWokenBy == ctxErr # Nil /\ (~done \/ ctxFirst)

RwcWake ==
  /\ ~panicked
  /\ xpc = "parked"
  /\ done \/ ctxErr # Nil
  /\ IF RwcWokenBy
       THEN RwcCtxCase
       ELSE /\ xpc' = "read_res"
            /\ UNCHANGED xgot
  /\ UNCHANGED <<panicked, pvars, evars, kvars, yvars>>
  /\ UNCHANGED <<tpc, tfn, ctxErr, qpc, qgot, rprev, ctxFirst, xearly>>

\* return p.res, p.err -- the two fields are read one after the other
RwcReadRes ==
  /\ ~panicked
  /\ xpc = "read_res"
  /\ xgot' = [v |-> res, e |-> xgot.e]
  /\ xpc' = "read_err"
  /\ UNCHANGED <<panicked, pvars, evars, kvars, yvars>>
  /\ UNCHANGED <<tpc, tfn, ctxErr, qpc, qgot, rprev, ctxFirst, xearly>>

RwcReadErr ==
  /\ ~panicked
  /\ xpc = "read_err"
  /\ xgot' = [v |-> xgot.v, e |-> err]
  /\ xpc' = "ret"
  /\ UNCHANGED <<panicked, pvars, evars, kvars, yvars>>
  /\ UNCHANGED <<tpc, tfn, ctxErr, qpc, qgot, rprev, ctxFirst, xearly>>

\* A select that takes the done case whether or not done is closed.
CanceledSelectUnchecked ==
  /\ qpc' = "read"
  /\ UNCHANGED qgot

\* select { case <-p.Done(): ...; default: return false }
CanceledSelect ==
  IF done
    THEN /\ qpc' = "read"
         /\ UNCHANGED qgot
    ELSE /\ qpc' = "ret"
         /\ qgot' = FALSE

\* Canceled() is called, any number of times.
CanceledCall ==
  /\ ~panicked
  /\ qpc \in {"idle", "ret"}
  /\ CanceledSelect
  /\ UNCHANGED <<panicked, pvars, evars, kvars, yvars>>
  /\ UNCHANGED <<tpc, tfn, ctxErr, xpc, xgot, rprev, ctxFirst, xearly>>

\* return p.err == ErrCanceled
CanceledRead ==
  /\ ~panicked
  /\ qpc = "read"
  /\ qgot' = (err = ErrCanceled)
  /\ qpc' = "ret"
  /\ UNCHANGED <<panicked, pvars, evars, kvars, yvars>>
  /\ UNCHANGED <<tpc, tfn, ctxErr, xpc, xgot, rprev, ctxFirst, xearly>>

\* A goroutine whose Result() has returned calls Result() again.
ResultAgain(r) ==
  /\ ~panicked
  /\ rpc[r] = "ret"
  /\ rprev' = IF rprev = None THEN rgot[r] ELSE rprev
  /\ rgot' = [rgot EXCEPT ![r] = None]
  /\ rpc' = [rpc EXCEPT ![r] = "await"]
  /\ UNCHANGED <<panicked, impl, done, res, err, cpc, carg, ncalls, firstRet, raced, late>>
  /\ UNCHANGED <<tpc, tfn, ctxErr, xpc, xgot, qpc, qgot, ctxFirst, xearly>>
  /\ UNCHANGED <<evars, kvars, yvars>>

(***************************************************************************)
(* WhenAll and WhenAny                                                     *)
(*                                                                         *)
(* Each input Promise is finalized once, by its own task, at any time and   *)
(* in any order.  The combinator hands one function to Exec; a worker runs *)
(* it and finalizes the composite Promise with what it returned.           *)
(***************************************************************************)
Inputs == 1..NumInputs

\* What the task of p[i] may produce: a value or an error of its own.
InputValues == <<"v1", "v2", "v3", "v4", "v5">>
InputErrs == <<"e1", "e2", "e3", "e4", "e5">>
InputOutcomes(i) == {Resolve(InputValues[i]), Reject(InputErrs[i])}

\* p.Result() on a Promise that is done.
Result(p) == [v |-> p.res, e |-> p.err]

\* The task of p[i] finalizes it.
InputFinish(i) ==
  /\ i <= kn
  /\ ~inp[i].done
  /\ \E o \in InputOutcomes(i) :
       /\ inp' = [inp EXCEPT ![i] = finalize(@, o.v, o.e)]
       /\ iown' = [iown EXCEPT ![i] = o]
  /\ UNCHANGED <<kind, kn, comp, kpc, kidx, kl, kerr, kleft>>
  /\ UNCHANGED <<panicked, pvars, evars, avars, yvars>>

\* np := e.Exec(fn): the Executor is stopped and np comes back rejected, or
\* the function is queued.
CombExec ==
  /\ kpc = "exec"
  /\ \/ /\ comp' = finalize(comp, Reject(ErrExecutorStopped).v, Reject(ErrExecutorStopped).e)
        /\ kpc' = "stopped"
     \/ /\ kpc' = "queued"
        /\ UNCHANGED comp
  /\ UNCHANGED <<kind, kn, inp, kidx, kl, kerr, iown, kleft>>
  /\ UNCHANGED <<panicked, pvars, evars, avars, yvars>>

\* A worker receives the function and calls it.
CombStart ==
  /\ kpc = "queued"
  /\ kpc' = "run"
  /\ UNCHANGED <<kind, kn, inp, comp, kidx, kl, kerr, iown, kleft>>
  /\ UNCHANGED <<panicked, pvars, evars, avars, yvars>>

\* The function returns f and the worker finalizes np with it.
CombReturn(f) ==
  /\ comp' = WorkerFinalize(comp, f)
  /\ kpc' = "finalized"
  /\ kleft' = {i \in 1..kn : ~inp[i].done}

\* A loop that reads the inputs from the last to the first.
WhenAllAwaitsReversed(i) == kn + 1 - i

\* for i := range p { res, err := p[i].Result() ...: the input read in round i
WhenAllAwaits(i) == i

\* A collection in the order of the rounds from the far end of the list.
WhenAllCollectReversed(l, i, r) == [l EXCEPT ![Len(l) + 1 - i] = r]

\* l[i] = res
WhenAllCollect(l, i, r) == [l EXCEPT ![i] = r]

\* A failure that cancels the inputs still pending.
WhenAllFailCancelRest(e) ==
  /\ CombReturn([v |-> Nil, e |-> e])
  /\ inp' = [i \in Inputs |-> IF i <= kn THEN finalize(inp[i], Cancel.v, Cancel.e) ELSE inp[i]]
  /\ UNCHANGED <<kidx, kl>>

\* if err != nil { return nil, err }
WhenAllFail(e) ==
  /\ CombReturn([v |-> Nil, e |-> e])
  /\ UNCHANGED <<inp, kidx, kl>>

\* One round of WhenAll's loop, or its `return l, nil` after the last.
WhenAll ==
  /\ kind = "all"
  /\ kpc = "run"
  /\ IF kidx > kn
       THEN /\ CombReturn([v |-> kl, e |-> Nil])
            /\ UNCHANGED <<inp, kidx, kl>>
       ELSE /\ inp[WhenAllAwaits(kidx)].done
            /\ LET r == Result(inp[WhenAllAwaits(kidx)]) IN
                 IF r.e # Nil
                   THEN WhenAllFail(r.e)
                   ELSE /\ kl' = WhenAllCollect(kl, WhenAllAwaits(kidx), r.v)
                        /\ kidx' = kidx + 1
                        /\ UNCHANGED <<inp, comp, kpc, kleft>>
  /\ UNCHANGED <<kind, kn, kerr, iown>>
  /\ UNCHANGED <<panicked, pvars, evars, avars, yvars>>

\* A loop that reads the inputs from the last to the first.
WhenAnyAwaitsReversed(i) == kn + 1 - i

\* for i := range p { res, err = p[i].Result() ...: the input read in round i
WhenAnyAwaits(i) == i

\* An err that keeps the first error it was given.
WhenAnyErrFirst(old, new) == IF old = Nil THEN new ELSE old

\* res, err = p[i].Result(): err takes the error of the input just read
WhenAnyErr(old, new) == new

\* One round of WhenAny's loop, or its `return nil, err` after the last.
WhenAny ==
  /\ kind = "any"
  /\ kpc = "run"
  /\ IF kidx > kn
       THEN /\ CombReturn([v |-> Nil, e |-> kerr])
            /\ UNCHANGED <<kidx, kerr>>
       ELSE /\ inp[WhenAnyAwaits(kidx)].done
            /\ LET r == Result(inp[WhenAnyAwaits(kidx)]) IN
                 IF r.e = Nil
                   THEN /\ CombReturn([v |-> r.v, e |-> Nil])
                        /\ UNCHANGED <<kidx, kerr>>
                   ELSE /\ kerr' = WhenAnyErr(kerr, r.e)
                        /\ kidx' = kidx + 1
                        /\ UNCHANGED <<comp, kpc, kleft>>
  /\ UNCHANGED <<kind, kn, inp, kl, iown>>
  /\ UNCHANGED <<panicked, pvars, evars, avars, yvars>>

(***************************************************************************)
(* Specifications                                                          *)
(***************************************************************************)
\* New(), for a Promise of one of the given implementations.
InitPromiseOf(impls) ==
  /\ impl \in impls
  /\ done = New.done
  /\ res = New.res
  /\ err = New.err
  /\ panicked = FALSE
  /\ cpc = [c \in Callers |-> "idle"]
  /\ carg = [c \in Callers |-> None]
  /\ ncalls = 0
  /\ rpc = [r \in Readers |-> "await"]
  /\ rgot = [r \in Readers |-> None]
  /\ firstRet = None
  /\ raced = FALSE
  /\ late = [c \in Callers |-> FALSE]

NextPromise ==
  \/ \E c \in Callers : Call(c)
  \/ \E c \in Callers : Select(c)
  \/ \E c \in Callers : WriteRes(c)
  \/ \E c \in Callers : WriteErr(c)
  \/ \E c \in Callers : Close(c)
  \/ \E r \in Readers : ResultAwait(r)
  \/ \E r \in Readers : ResultReadRes(r)
  \/ \E r \in Readers : ResultReadErr(r)




\* StartExecutor(concurrency, maxPendingPromises): the workers are started,
\* the channels are open and empty.
StartExecutor(concurrency, maxPendingPromises) ==
  /\ conc = concurrency
  /\ capacity = maxPendingPromises
  /\ stopCh = FALSE
  /\ promCh = <<>>
  /\ sendq = <<>>
  /\ wpc = [w \in Workers |-> IF w <= concurrency THEN "select1" ELSE "off"]
  /\ wtask = [w \in Workers |-> 0]

InitExecutorOf(concurrency, maxPendingPromises) ==
  /\ panicked = FALSE
  /\ StartExecutor(concurrency, maxPendingPromises)
  /\ epc = [t \in Tasks |-> "new"]
  /\ fn = [t \in Tasks |-> None]
  /\ prom = [t \in Tasks |-> New]
  /\ spc = [s \in Stoppers |-> "idle"]
  /\ ranAfterStop = {}
  /\ lateExec = [t \in Tasks |-> FALSE]
  /\ closer = 0
  /\ atStop = [queued |-> {}, inflight |-> {}, blocked |-> {}, allBusy |-> FALSE]

InitExecutor == InitExecutorOf(Concurrency, MaxPending)

\* An open task channel, callbacks that have not run, no CancelAll /
\* RejectAll under way, and tasks that are all plain functions.
InitPlain ==
  /\ promClosed = FALSE
  /\ crash = ""
  /\ cbcount = 0
  /\ cbargs = None
  /\ awas = [i \in Inputs |-> New]
  /\ tkind = [t \in Tasks |-> "plain"]
  /\ tdeps = [t \in Tasks |-> {}]

\* No call waits yet, the context is live; the task's goroutine is at the
\* given position ("off": the Promise has no task).
InitWaiters(task) ==
  /\ tpc = task
  /\ tfn = None
  /\ ctxErr = Nil
  /\ xpc = "idle"
  /\ xgot = None
  /\ qpc = "idle"
  /\ qgot = FALSE
  /\ rprev = None
  /\ ctxFirst = FALSE
  /\ xearly = FALSE

\* A combinator of one of the given kinds is about to call Exec, over a list
\* of new Promises of one of the given lengths ("off": none is called).
InitCombinator(kinds, lens, pc) ==
  /\ kind \in kinds
  /\ kn \in lens
  /\ inp = [i \in Inputs |-> New]
  /\ comp = New
  /\ kpc = pc
  /\ kidx = 1
  /\ kl = [i \in 1..kn |-> Nil]
  /\ kerr = Nil
  /\ iown = [i \in Inputs |-> None]
  /\ kleft = {}

\* A new Promise of either implementation, and a started Executor.
InitAnyPromise ==
  /\ InitPromiseOf({"finalize", "generic"}) /\ InitExecutor
  /\ InitWaiters("off") /\ InitCombinator({"all"}, {0}, "off") /\ InitPlain

\* A started Executor; its Promises are those of promise.go.
InitStarted ==
  /\ InitPromiseOf({"finalize"}) /\ InitExecutor
  /\ InitWaiters("off") /\ InitCombinator({"all"}, {0}, "off") /\ InitPlain

\* A new Promise of either implementation whose task has just been handed
\* to its goroutine.
InitAwait ==
  /\ InitPromiseOf({"finalize", "generic"}) /\ InitExecutor
  /\ InitWaiters("execfn") /\ InitCombinator({"all"}, {0}, "off") /\ InitPlain

\* WhenAll or WhenAny is called over a list of new Promises.
InitWhen ==
  /\ InitPromiseOf({"finalize"}) /\ InitExecutor
  /\ InitWaiters("off") /\ InitCombinator({"all", "any"}, 0..NumInputs, "exec") /\ InitPlain

NextWhen ==
  \/ \E i \in Inputs : InputFinish(i)
  \/ CombExec
  \/ CombStart
  \/ WhenAll
  \/ WhenAny

\* A new Promise of promise.go whose task has just been handed to its
\* goroutine, and a live context.
InitContext ==
  /\ InitPromiseOf({"finalize"}) /\ InitExecutor
  /\ InitWaiters("execfn") /\ InitCombinator({"all"}, {0}, "off") /\ InitPlain

NextAwait ==
  \/ TaskExecFn
  \/ TaskReturn
  \/ Call(Outsider)
  \/ \E c \in Callers : Select(c)
  \/ \E c \in Callers : WriteRes(c)
  \/ \E c \in Callers : WriteErr(c)
  \/ \E c \in Callers : Close(c)
  \/ \E r \in Readers : ResultAwait(r)
  \/ \E r \in Readers : ResultReadRes(r)
  \/ \E r \in Readers : ResultReadErr(r)
  \/ \E r \in Readers : ResultAgain(r)
  \/ CanceledCall
  \/ CanceledRead

NextContext ==
  \/ TaskExecFn
  \/ TaskReturn
  \/ Call(Outsider)
  \/ \E c \in Callers : Select(c)
  \/ \E c \in Callers : WriteRes(c)
  \/ \E c \in Callers : WriteErr(c)
  \/ \E c \in Callers : Close(c)
  \/ \E r \in Readers : ResultAwait(r)
  \/ \E r \in Readers : ResultReadRes(r)
  \/ \E r \in Readers : ResultReadErr(r)
  \/ CtxDone
  \/ RwcSelect
  \/ RwcWake
  \/ RwcReadRes
  \/ RwcReadErr

NextExecutor ==
  \/ \E w \in Workers : WorkerSelect1(w)
  \/ \E w \in Workers : WorkerSelect2(w)
  \/ \E w \in Workers : WorkerWoken(w)
  \/ \E w \in Workers : WorkerFinish(w)
  \/ \E t \in Tasks : ExecSelect1(t)
  \/ \E t \in Tasks : ExecSelect2(t)
  \/ \E t \in Tasks : ExecStopped(t)
  \/ \E s \in Stoppers : StopSelect(s)
  \/ \E s \in Stoppers : StopClose(s)
  \/ \E s \in Stoppers : StopWait(s)
  \/ \E s \in Stoppers : StopDrain(s)

\* One Promise, finalized and read by several goroutines; no Executor runs.
SpecPromise == InitAnyPromise /\ [][NextPromise]_vars

\* One Executor with its workers, Exec calls and Stop calls.
SpecExecutor == InitStarted /\ [][NextExecutor]_vars

\* One Promise with its task, an outside finalizer, Result() and Canceled() calls.
SpecAwait == InitAwait /\ [][NextAwait]_vars

\* One Promise with its task, a context and a ResultWithContext call.
SpecContext == InitContext /\ [][NextContext]_vars

\* One WhenAll or WhenAny call, its input Promises and their tasks.
SpecWhen == InitWhen /\ [][NextWhen]_vars

(***************************************************************************)
(* CancelAll and RejectAll                                                 *)
(*                                                                         *)
(* The loop visits the Promises of the list in index order; the task of a   *)
(* Promise may finalize it before the loop reaches it.                      *)
(***************************************************************************)
\* A call that stores its error whatever the Promise holds.
RejectItemAlways(p, e) == [done |-> TRUE, res |-> Nil, err |-> e]

\* p[i].Cancel() / promises[i].Reject(err)
RejectItem(p, e) == finalize(p, Reject(e).v, Reject(e).e)

\* for i := range p { ... }: one round, and the return after the last one
RangeAll ==
  /\ kpc = "loop"
  /\ \/ /\ kidx <= kn
        /\ awas' = [awas EXCEPT ![kidx] = inp[kidx]]
        /\ inp' = [inp EXCEPT ![kidx] = RejectItem(@, kerr)]
        /\ kidx' = kidx + 1
        /\ UNCHANGED kpc
     \/ /\ kidx > kn
        /\ kpc' = "ret"
        /\ UNCHANGED <<awas, inp, kidx>>
  /\ UNCHANGED <<kind, kn, comp, kl, kerr, iown, kleft>>
  /\ UNCHANGED <<rvars, cvars, dvars>>
  /\ UNCHANGED <<panicked, pvars, evars, avars>>

CancelAll == kind = "cancelall" /\ RangeAll
RejectAll == kind = "rejectall" /\ RangeAll

\* CancelAll(p...) or RejectAll(e, p) is called over a list of new Promises.
InitList ==
  /\ kind \in {"cancelall", "rejectall"}
  /\ kn \in 0..NumInputs
  /\ inp = [i \in Inputs |-> New]
  /\ comp = New
  /\ kpc = "loop"
  /\ kidx = 1
  /\ kl = [i \in 1..kn |-> Nil]
  /\ kerr \in (IF kind = "cancelall" THEN {Cancel.e} ELSE UserErrs)
  /\ iown = [i \in Inputs |-> None]
  /\ kleft = {}

InitAll ==
  /\ InitPromiseOf({"finalize"}) /\ InitExecutor
  /\ InitWaiters("off") /\ InitList /\ InitPlain

NextAll ==
  \/ \E i \in Inputs : InputFinish(i)
  \/ CancelAll
  \/ RejectAll

\* One CancelAll or RejectAll call, the Promises of its list and their tasks.
SpecAll == InitAll /\ [][NextAll]_vars

(***************************************************************************)
(* Runner (v2)                                                             *)
(*                                                                         *)
(* NewRunner starts the worker loop of StartExecutor over r.stoping (stopCh *)
(* here) and r.promises (promCh here); the workers are the actions         *)
(* WorkerSelect1, WorkerSelect2, WorkerWoken and WorkerFinish above.        *)
(* AsyncOnRunner submits like Exec, with ErrExecutionDone.  Wait closes     *)
(* r.stoping, waits for the workers, executes what is left in r.promises   *)
(* and closes it.  time.After(time.Millisecond) is a timeout that may fire  *)
(* at any moment.                                                          *)
(***************************************************************************)
ErrExecutionDone == "ErrExecutionDone"

\* ---- AsyncOnRunner -----------------------------------------------------
\* A call that has returned is at "rejected" when it took a stop case and at
\* "ret" when its send went through.
\* A first select that never takes the stop case.
AsyncFirstSelectNoStop(t) ==
  /\ epc' = [epc EXCEPT ![t] = "select2"]
  /\ UNCHANGED prom

\* select { case <-r.stoping: promise.Reject(ErrExecutionDone); return promise; default: }
AsyncFirstSelect(t) ==
  IF stopCh
    THEN /\ prom' = [prom EXCEPT ![t] = finalize(@, Reject(ErrExecutionDone).v,
                                                  Reject(ErrExecutionDone).e)]
         /\ epc' = [epc EXCEPT ![t] = "rejected"]
    ELSE /\ epc' = [epc EXCEPT ![t] = "select2"]
         /\ UNCHANGED prom

\* AsyncOnRunner is called: the Promise and the item are made, then the
\* first select.  Nothing before that select touches the Runner.
AsyncSelect1(t) ==
  /\ ~panicked
  /\ epc[t] = "new"
  /\ \A u \in Tasks : u < t => epc[u] # "new"
  /\ lateExec' = [lateExec EXCEPT ![t] = StopReturned]
  /\ AsyncFirstSelect(t)
  /\ UNCHANGED <<panicked, pvars, xvars>>
  /\ UNCHANGED <<conc, capacity, stopCh, promCh, sendq, wpc, wtask, fn, spc,
                 ranAfterStop, closer, atStop>>

\* case <-r.stoping: promise.Reject(ErrExecutionDone)
AsyncRejectDone(t) ==
  prom' = [prom EXCEPT ![t] = finalize(@, Reject(ErrExecutionDone).v,
                                       Reject(ErrExecutionDone).e)]

\* select { case <-r.stoping: ...; case r.promises <- item: }
\* A send on a closed channel is a case that can proceed: it panics.
AsyncSelect2(t) ==
  /\ ~panicked
  /\ epc[t] = "select2"
  /\ \/ /\ stopCh
        /\ AsyncRejectDone(t)
        /\ epc' = [epc EXCEPT ![t] = "rejected"]
        /\ UNCHANGED <<promCh, sendq, wpc, wtask, ranAfterStop, panicked, crash>>
     \/ /\ promClosed
        /\ panicked' = TRUE
        /\ crash' = "send on r.promises"
        /\ UNCHANGED <<promCh, sendq, wpc, wtask, ranAfterStop, epc, prom>>
     \/ /\ ~promClosed
        /\ Parked # {}
        /\ \E w \in Parked :
             /\ wpc' = [wpc EXCEPT ![w] = "run"]
             /\ wtask' = [wtask EXCEPT ![w] = t]
        /\ ranAfterStop' = IF stopCh THEN ranAfterStop \cup {t} ELSE ranAfterStop
        /\ epc' = [epc EXCEPT ![t] = "ret"]
        /\ UNCHANGED <<promCh, sendq, prom, panicked, crash>>
     \/ /\ ~promClosed
        /\ Parked = {}
        /\ Len(promCh) < capacity
        /\ SendPromCh(t)
        /\ epc' = [epc EXCEPT ![t] = "ret"]
        /\ UNCHANGED <<sendq, wpc, wtask, ranAfterStop, prom, panicked, crash>>
     \/ /\ ~stopCh
        /\ ~promClosed
        /\ Parked = {}
        /\ Len(promCh) >= capacity
        /\ sendq' = Append(sendq, t)
        /\ epc' = [epc EXCEPT ![t] = "parked"]
        /\ UNCHANGED <<promCh, wpc, wtask, ranAfterStop, prom, panicked, crash>>
  /\ UNCHANGED <<pvars, avars, kvars, cvars, lvars, dvars>>
  /\ UNCHANGED promClosed
  /\ UNCHANGED <<conc, capacity, stopCh, fn, spc, lateExec, closer, atStop>>

\* An AsyncOnRunner call that close(r.stoping) resumed takes its stop case.
AsyncStopped(t) ==
  /\ ~panicked
  /\ epc[t] = "stopped"
  /\ AsyncRejectDone(t)
  /\ epc' = [epc EXCEPT ![t] = "rejected"]
  /\ UNCHANGED <<panicked, pvars, xvars>>
  /\ UNCHANGED <<conc, capacity, stopCh, promCh, sendq, wpc, wtask, fn, spc,
                 ranAfterStop, lateExec, closer, atStop>>

\* ---- Runner.Wait -------------------------------------------------------
\* select { case <-r.stoping: return; default: ... }
\* Wait is called; the select is its first step.
WaitSelect(s) ==
  /\ ~panicked
  /\ spc[s] = "idle"
  /\ \A u \in Stoppers : u < s => spc[u] # "idle"
  /\ spc' = [spc EXCEPT ![s] = IF stopCh THEN "ret" ELSE "close"]
  /\ UNCHANGED <<panicked, pvars, xvars>>
  /\ UNCHANGED <<conc, capacity, stopCh, promCh, sendq, wpc, wtask, epc, fn, prom,
                 ranAfterStop, lateExec, closer, atStop>>

\* default: close(r.stoping): panics on a closed channel; otherwise every
\* goroutine parked in a select on r.stoping resumes with its stop case.
WaitClose(s) ==
  /\ ~panicked
  /\ spc[s] = "close"
  /\ IF stopCh
       THEN /\ panicked' = TRUE
            /\ crash' = "close(r.stoping)"
            /\ UNCHANGED <<stopCh, sendq, wpc, epc, spc, closer, atStop>>
       ELSE /\ stopCh' = TRUE
            /\ wpc' = [w \in Workers |-> IF wpc[w] = "parked" THEN "woken" ELSE wpc[w]]
            /\ epc' = [t \in Tasks |-> IF epc[t] = "parked" THEN "stopped" ELSE epc[t]]
            /\ sendq' = <<>>
            /\ spc' = [spc EXCEPT ![s] = "wait"]
            /\ closer' = s
            /\ atStop' = LET busy == \A w \in Workers : Started(w) => wpc[w] = "run" IN
                          [queued   |-> IF busy THEN {promCh[i] : i \in 1..Len(promCh)} ELSE {},
                           inflight |-> IF busy THEN {wtask[w] : w \in {x \in Workers : Started(x)}} ELSE {},
                           blocked  |-> {sendq[i] : i \in 1..Len(sendq)},
                           allBusy  |-> busy]
            /\ UNCHANGED <<panicked, crash>>
  /\ UNCHANGED <<pvars, avars, kvars, cvars, lvars, dvars>>
  /\ UNCHANGED promClosed
  /\ UNCHANGED <<conc, capacity, promCh, wtask, fn, prom, ranAfterStop, lateExec>>

\* r.wg.Wait(): every worker has run its deferred r.wg.Done()
WaitWg(s) ==
  /\ ~panicked
  /\ spc[s] = "wait"
  /\ \A w \in Workers : Started(w) => wpc[w] = "exit"
  /\ spc' = [spc EXCEPT ![s] = "helper"]
  /\ UNCHANGED <<panicked, pvars, xvars>>
  /\ UNCHANGED <<conc, capacity, stopCh, promCh, sendq, wpc, wtask, epc, fn, prom,
                 ranAfterStop, lateExec, closer, atStop>>

\* An item that is taken from the channel and rejected unexecuted.
ItemRejected(t, f) ==
  /\ prom' = [prom EXCEPT ![t] = finalize(@, Reject(ErrExecutionDone).v,
                                          Reject(ErrExecutionDone).e)]
  /\ UNCHANGED fn

\* item.exec(): result, err := impl(), then promise.Reject(err) or
\* promise.Resolve(result)
ItemExec(t, f) ==
  /\ fn' = [fn EXCEPT ![t] = f]
  /\ prom' = [prom EXCEPT ![t] = WorkerFinalize(@, f)]

\* The goroutine Wait starts and waits for:
\* for { select { case item := <-r.promises: item.exec()
\*                case <-time.After(time.Millisecond): return } }
\* with the deferred close(r.promises) and close(closed).
WaitHelper(s) ==
  /\ ~panicked
  /\ spc[s] = "helper"
  /\ \/ /\ promCh # <<>>
        /\ RecvPromCh
        /\ \E f \in FnOutcomes : ItemExec(Head(promCh), f)
        /\ UNCHANGED <<spc, promClosed>>
     \/ /\ promClosed' = TRUE
        /\ spc' = [spc EXCEPT ![s] = "range"]
        /\ UNCHANGED <<promCh, sendq, epc, fn, prom>>
  /\ UNCHANGED <<panicked, pvars, avars, kvars, cvars, lvars, dvars>>
  /\ UNCHANGED crash
  /\ UNCHANGED <<conc, capacity, stopCh, wpc, wtask, ranAfterStop, lateExec, closer, atStop>>

\* for item := range r.promises { item.exec() }: over a closed channel the
\* loop ends when the buffer is empty.
WaitRange(s) ==
  /\ ~panicked
  /\ spc[s] = "range"
  /\ IF promCh # <<>>
       THEN /\ RecvPromCh
            /\ \E f \in FnOutcomes : ItemExec(Head(promCh), f)
            /\ UNCHANGED spc
       ELSE /\ spc' = [spc EXCEPT ![s] = "ret"]
            /\ UNCHANGED <<promCh, sendq, epc, fn, prom>>
  /\ UNCHANGED <<panicked, pvars, xvars>>
  /\ UNCHANGED <<conc, capacity, stopCh, wpc, wtask, ranAfterStop, lateExec, closer, atStop>>

\* NewRunner(Concurrency, MaxPending); its Promises are those of v2.
InitRunner ==
  /\ InitPromiseOf({"generic"}) /\ InitExecutor
  /\ InitWaiters("off") /\ InitCombinator({"all"}, {0}, "off") /\ InitPlain

NextRunner ==
  \/ \E w \in Workers : WorkerSelect1(w)
  \/ \E w \in Workers : WorkerSelect2(w)
  \/ \E w \in Workers : WorkerWoken(w)
  \/ \E w \in Workers : WorkerFinish(w)
  \/ \E t \in Tasks : AsyncSelect1(t)
  \/ \E t \in Tasks : AsyncSelect2(t)
  \/ \E t \in Tasks : AsyncStopped(t)
  \/ \E s \in Stoppers : WaitSelect(s)
  \/ \E s \in Stoppers : WaitClose(s)
  \/ \E s \in Stoppers : WaitWg(s)
  \/ \E s \in Stoppers : WaitHelper(s)
  \/ \E s \in Stoppers : WaitRange(s)

\* One Runner, the AsyncOnRunner calls made on it and the goroutines that
\* call Wait.
SpecRunner == InitRunner /\ [][NextRunner]_vars

\* StartExecutor(Concurrency + 1, MaxPending): two workers share the queue.
InitPool ==
  /\ InitPromiseOf({"finalize"}) /\ InitExecutorOf(Concurrency + 1, MaxPending)
  /\ InitWaiters("off") /\ InitCombinator({"all"}, {0}, "off") /\ InitPlain

\* Stop is called while no other Stop call is in flight.
StopAlone(s) ==
  /\ \A u \in Stoppers : spc[u] \in {"idle", "ret"}
  /\ StopSelect(s)

NextPool ==
  \/ \E w \in Workers : WorkerSelect1(w)
  \/ \E w \in Workers : WorkerSelect2(w)
  \/ \E w \in Workers : WorkerWoken(w)
  \/ \E w \in Workers : WorkerFinish(w)
  \/ \E t \in Tasks : ExecSelect1(t)
  \/ \E t \in Tasks : ExecSelect2(t)
  \/ \E t \in Tasks : ExecStopped(t)
  \/ \E s \in Stoppers : StopAlone(s)
  \/ \E s \in Stoppers : StopClose(s)
  \/ \E s \in Stoppers : StopWait(s)
  \/ \E s \in Stoppers : StopDrain(s)

\* An Executor with one worker more, the Exec calls made on it and Stop
\* calls made one after another.
SpecPool == InitPool /\ [][NextPool]_vars

\* Exec is called while no other Exec call is in flight: the calls are made
\* one after another, each after the one before it has returned.
ExecAlone(t) ==
  /\ \A u \in Tasks : epc[u] \in {"new", "ret"}
  /\ ExecSelect1(t)

\* StartExecutor(Concurrency + 1, MaxPending + 1): two workers and room for
\* two tasks in the queue.
InitFifo ==
  /\ InitPromiseOf({"finalize"}) /\ InitExecutorOf(Concurrency + 1, MaxPending + 1)
  /\ InitWaiters("off") /\ InitCombinator({"all"}, {0}, "off") /\ InitPlain

NextFifo ==
  \/ \E w \in Workers : WorkerSelect1(w)
  \/ \E w \in Workers : WorkerSelect2(w)
  \/ \E w \in Workers : WorkerWoken(w)
  \/ \E w \in Workers : WorkerFinish(w)
  \/ \E t \in Tasks : ExecAlone(t)
  \/ \E t \in Tasks : ExecSelect2(t)
  \/ \E t \in Tasks : ExecStopped(t)
  \/ \E s \in Stoppers : StopAlone(s)
  \/ \E s \in Stoppers : StopClose(s)
  \/ \E s \in Stoppers : StopWait(s)
  \/ \E s \in Stoppers : StopDrain(s)

\* An Executor whose Exec calls are made one after another.
SpecFifo == InitFifo /\ [][NextFifo]_vars

(***************************************************************************)
(* The Promise with callbacks                                              *)
(*                                                                         *)
(* finalize is the finalize of promise.go (the steps Call, Select,         *)
(* WriteRes and WriteErr above) followed, after close(pr.done), by a loop   *)
(* that hands the call's own (v, err) to every registered callback.        *)
(***************************************************************************)
\* close(pr.done) in the default branch; the call then leaves the select.
\* Closing a closed channel panics.
CloseDone(c) ==
  /\ ~panicked
  /\ cpc[c] = "close"
  /\ IF done
       THEN /\ panicked' = TRUE
            /\ UNCHANGED <<done, cpc>>
       ELSE /\ done' = TRUE
            /\ cpc' = [cpc EXCEPT ![c] = "callbacks"]
            /\ UNCHANGED panicked
  /\ UNCHANGED <<evars, xvars>>
  /\ UNCHANGED <<impl, res, err, carg, ncalls, rpc, rgot, firstRet, raced, late>>

\* for _, cb := range pr.callback { cb.PromiseCallback(v, err) }, then return
Callbacks(c) ==
  /\ ~panicked
  /\ cpc[c] = "callbacks"
  /\ cbcount' = cbcount + 1
  /\ cbargs' = carg[c]
  /\ cpc' = [cpc EXCEPT ![c] = "idle"]
  /\ firstRet' = IF firstRet = None THEN carg[c] ELSE firstRet
  /\ carg' = [carg EXCEPT ![c] = None]
  /\ late' = [late EXCEPT ![c] = FALSE]
  /\ UNCHANGED <<evars, avars, kvars, rvars, lvars, dvars>>
  /\ UNCHANGED <<panicked, impl, done, res, err, ncalls, rpc, rgot, raced>>

\* A new Promise with callbacks; its fields are finalized as in promise.go.
InitCallback ==
  /\ InitPromiseOf({"finalize"}) /\ InitExecutor
  /\ InitWaiters("off") /\ InitCombinator({"all"}, {0}, "off") /\ InitPlain

NextCallback ==
  \/ \E c \in Callers : Call(c)
  \/ \E c \in Callers : Select(c)
  \/ \E c \in Callers : WriteRes(c)
  \/ \E c \in Callers : WriteErr(c)
  \/ \E c \in Callers : CloseDone(c)
  \/ \E c \in Callers : Callbacks(c)

\* One Promise with callbacks, finalized by several goroutines.
SpecCallback == InitCallback /\ [][NextCallback]_vars

\* The goroutines are scheduled fairly: a worker, an Exec call or a Stop
\* call that can take its next step takes it in the end.  For a worker
\* inside a task this says that the task's function returns.  Whether a
\* new Exec or Stop call is made is left open.
FairPool ==
  /\ \A w \in Workers :
        WF_vars(WorkerSelect1(w) \/ WorkerSelect2(w) \/ WorkerWoken(w) \/ WorkerFinish(w))
  /\ \A t \in Tasks : WF_vars(ExecSelect2(t) \/ ExecStopped(t))
  /\ \A s \in Stoppers : WF_vars(StopClose(s) \/ StopWait(s) \/ StopDrain(s))

\* The Executor of StartExecutor(Concurrency, MaxPending) under fair
\* scheduling, with Stop calls made one after another.
SpecStartedFair == InitStarted /\ [][NextPool]_vars /\ FairPool

(***************************************************************************)
(* WhenAll and WhenAny on a running Executor                                *)
(*                                                                         *)
(* A task is a plain function or the function of a combinator over the     *)
(* Promises of earlier tasks.  A combinator's function sits in a worker,    *)
(* blocked in p[i].Result(), until the input it waits for is finalized; a  *)
(* finalized Promise stays as it is, so the function can return as soon as *)
(* its scan, in index order, can reach a return.  The list WhenAll builds   *)
(* is the subject of the section on WhenAll above; here it is a token.      *)
(***************************************************************************)
ListOfValues == "list"

FirstOf(S) == CHOOSE d \in S : \A x \in S : d <= x
LastOf(S) == CHOOSE d \in S : \A x \in S : d >= x

\* WhenAll's function: what it can return now.  It reads the inputs in
\* index order, returns the error of the first failed one, and the list
\* after the last one.
WhenAllReturns(t) ==
  LET stops == {d \in tdeps[t] : ~prom[d].done \/ prom[d].err # Nil} IN
    IF stops = {} THEN {Resolve(ListOfValues)}
    ELSE IF prom[FirstOf(stops)].done THEN {Reject(prom[FirstOf(stops)].err)}
    ELSE {}

\* WhenAny's function: what it can return now.  It reads the inputs in
\* index order, returns the value of the first one that succeeded, and the
\* error of the last one read (nil for no input) after the last one.
WhenAnyReturns(t) ==
  LET stops == {d \in tdeps[t] : ~prom[d].done \/ prom[d].err = Nil} IN
    IF stops = {}
      THEN {[v |-> Nil, e |-> IF tdeps[t] = {} THEN Nil ELSE prom[LastOf(tdeps[t])].err]}
    ELSE IF prom[FirstOf(stops)].done THEN {Resolve(prom[FirstOf(stops)].res)}
    ELSE {}

\* What the function of task t can return now.
TaskReturns(t) ==
  IF tkind[t] = "plain" THEN FnOutcomes
  ELSE IF tkind[t] = "all" THEN WhenAllReturns(t)
  ELSE WhenAnyReturns(t)

\* res, err := p.fn() returns, and the worker finalizes the Promise with it.
TaskFinish(w) ==
  /\ ~panicked
  /\ wpc[w] = "run"
  /\ \E f \in TaskReturns(wtask[w]) :
       LET t == wtask[w] IN
         /\ fn' = [fn EXCEPT ![t] = f]
         /\ prom' = [prom EXCEPT ![t] = WorkerFinalize(@, f)]
  /\ wpc' = [wpc EXCEPT ![w] = "select1"]
  /\ wtask' = [wtask EXCEPT ![w] = 0]
  /\ UNCHANGED <<panicked, pvars, xvars>>
  /\ UNCHANGED <<conc, capacity, stopCh, promCh, sendq, epc, spc,
                 ranAfterStop, lateExec, closer, atStop>>

\* Exec(fn), or WhenAll(e, p...) / WhenAny(e, p...) over Promises that
\* earlier calls have returned.
ExecAfterInputs(t) ==
  /\ \A d \in tdeps[t] : epc[d] = "ret"
  /\ ExecSelect1(t)

\* Each task is a plain function or a combinator over all the tasks before
\* it, plain ones and combinators; the combinators of one run are all
\* WhenAll or all WhenAny.
InitTasks ==
  /\ promClosed = FALSE
  /\ crash = ""
  /\ cbcount = 0
  /\ cbargs = None
  /\ awas = [i \in Inputs |-> New]
  /\ \E k \in {"all", "any"} : tkind \in [Tasks -> {"plain", k}]
  /\ tdeps = [t \in Tasks |-> IF tkind[t] = "plain" THEN {} ELSE {d \in Tasks : d < t}]

\* StartExecutor(c, MaxPending + 1) with Concurrency workers or one more,
\* never stopped.
InitWhenExec ==
  /\ InitPromiseOf({"finalize"})
  /\ \E c \in {Concurrency, Concurrency + 1} : InitExecutorOf(c, MaxPending + 1)
  /\ InitWaiters("off") /\ InitCombinator({"all"}, {0}, "off") /\ InitTasks

NextWhenExec ==
  \/ \E w \in Workers : WorkerSelect1(w)
  \/ \E w \in Workers : WorkerSelect2(w)
  \/ \E w \in Workers : TaskFinish(w)
  \/ \E t \in Tasks : ExecAfterInputs(t)
  \/ \E t \in Tasks : ExecSelect2(t)

\* The scheduler does not stop: while some worker can take a step, some
\* worker takes one, and likewise for the Exec calls in flight.  (Go runs
\* every runnable goroutine in the end, which is more than this.)  A plain
\* function returns, a combinator's function returns once it can.
FairWhenExec ==
  /\ WF_vars(\E w \in Workers : WorkerSelect1(w) \/ WorkerSelect2(w) \/ TaskFinish(w))
  /\ WF_vars(\E t \in Tasks : ExecSelect2(t))

\* Plain tasks and combinators over them on one Executor that is not stopped.
SpecWhenExec == InitWhenExec /\ [][NextWhenExec]_vars /\ FairWhenExec

(***************************************************************************)
(* Claims about the Promise, checked under SpecPromise.                    *)
(***************************************************************************)
\* C1: over any interleaving of concurrent Resolve, Reject and Cancel calls
\* the done channel is closed exactly once: no call ever closes a channel
\* that is already closed (which panics).
C1_DoneClosedOnce == ~(panicked /\ \E c \in Callers : cpc[c] = "close")

\* The pairs a single call writes: (v, nil) or (nil, e).
WholePairs == CallArgs

\* C2: every reader that saw the promise done reads a (value, error) pair
\* written by one single call, and all readers read the same pair.
C2_NoTornPair ==
  \A r1 \in Readers, r2 \in Readers :
    (rpc[r1] = "ret" /\ rpc[r2] = "ret") =>
       (rgot[r1] \in WholePairs /\ rgot[r1] = rgot[r2])

\* C3: write-once.  A call that begins after some call has returned never
\* gets past the select (it writes nothing and closes nothing), and when no
\* call overlapped the first one, the triple (done, res, err) and every
\* Result() are the values of that first call.
C3_WriteOnce ==
  /\ \A c \in Callers : late[c] => cpc[c] = "select"
  /\ (firstRet # None /\ ~raced) =>
        /\ done /\ res = firstRet.v /\ err = firstRet.e
        /\ \A r \in Readers : rpc[r] = "ret" => rgot[r] = firstRet

\* A first Resolve("a") has returned, a later call came and went, and a
\* reader has its result.
C3_Witness ==
  /\ firstRet = Resolve("a") /\ ~raced
  /\ ncalls >= 2
  /\ \A c \in Callers : cpc[c] = "idle"
  /\ \E r \in Readers : rpc[r] = "ret"


(***************************************************************************)
(* Claims about the Executor, checked under SpecExecutor.                  *)
(***************************************************************************)
Rejected(p, e) == p.done /\ p.res = Nil /\ p.err = e
Outcome(p) == [v |-> p.res, e |-> p.err]
\* The function of task t has not been invoked.
NeverRan(t) == fn[t] = None /\ \A w \in Workers : wtask[w] # t
InQueue(t) == \E i \in 1..Len(promCh) : promCh[i] = t
InSendq(t) == \E i \in 1..Len(sendq) : sendq[i] = t

\* C4: an Exec call that begins after a Stop call has returned does not
\* block, returns a Promise already rejected with ErrExecutorStopped, and
\* does not queue or run its task.
C4_ExecAfterStop ==
  \A t \in Tasks : lateExec[t] =>
     /\ epc[t] = "ret"
     /\ Rejected(prom[t], ErrExecutorStopped)
     /\ ~InQueue(t) /\ ~InSendq(t)
     /\ NeverRan(t)

\* An Exec call that began after a Stop call returned has returned, with the
\* queue full.
C4_Witness ==
  \E t \in Tasks : lateExec[t] /\ epc[t] = "ret" /\ Len(promCh) = capacity

\* C5: reject-mode shutdown.  When the stop signal is set while every worker
\* runs a task, then once that Stop call has returned the tasks that were
\* queued are rejected with ErrExecutorStopped and never ran, and the tasks
\* that were in flight carry what their own functions returned.
C5_RejectMode ==
  (closer # 0 /\ spc[closer] = "ret" /\ atStop.allBusy) =>
     /\ \A t \in atStop.queued :
          Rejected(prom[t], ErrExecutorStopped) /\ NeverRan(t)
     /\ \A t \in atStop.inflight :
          prom[t].done /\ Outcome(prom[t]) = fn[t]

\* Stop found a queued task behind busy workers, and has returned.
C5_Witness ==
  /\ closer # 0 /\ spc[closer] = "ret" /\ atStop.allBusy
  /\ atStop.queued # {} /\ atStop.inflight # {}

\* C6: once e.stopCh is closed no worker begins to run a task.
C6_NoStartAfterStop == ranAfterStop = {}

\* C7: after any Stop call has returned no task function is running and the
\* queue is empty.
C7_QuietAfterStop ==
  StopReturned => (promCh = <<>> /\ \A w \in Workers : wpc[w] # "run")

\* C8: every Promise Exec returned is finalized in the end: when every
\* worker has exited and no Stop call is in flight, nothing is left that
\* could finalize a Promise, so none is pending.
C8_NoStrandedTask ==
  ((\A w \in Workers : Started(w) => wpc[w] = "exit") /\ (\A s \in Stoppers : spc[s] \in {"idle", "ret"}))
     => \A t \in Tasks : epc[t] = "ret" => prom[t].done

\* C9: an Exec call parked on the full queue when e.stopCh is closed takes
\* its stop case: its task is never queued or run, and the Promise it
\* returns is rejected with ErrExecutorStopped.
C9_BlockedExecRejected ==
  \A t \in atStop.blocked :
     /\ epc[t] \in {"stopped", "ret"}
     /\ ~InQueue(t) /\ NeverRan(t)
     /\ epc[t] = "ret" => Rejected(prom[t], ErrExecutorStopped)

\* An Exec call that was parked when e.stopCh was closed has returned.
C9_Witness == \E t \in atStop.blocked : epc[t] = "ret"

\* C10: over any number of Stop calls e.stopCh is closed exactly once: no
\* Stop call closes a channel that is already closed (which panics).
C10_StopClosedOnce == ~(panicked /\ \E s \in Stoppers : spc[s] = "close")


(***************************************************************************)
(* Claims about the calls that wait for a Promise, checked under           *)
(* SpecContext (C11) and SpecAwait (C12, C13, C14).                        *)
(***************************************************************************)
\* C11: ResultWithContext never changes the Promise.  A call that began while
\* the Promise was pending, with a context that was done while the Promise
\* was pending, returns (nil, ctx.Err()); no step of the call changes (done,
\* res, err) or the task and the finalizing calls; and when the task is the
\* only finalizer, the Promise and every Result() carry what the task's
\* function returned.
C11_ContextFrame ==
  /\ []((xearly /\ ctxFirst /\ xpc = "ret") => xgot = [v |-> Nil, e |-> ctxErr])
  /\ []((TaskDone /\ ncalls = 1) =>
          /\ done /\ [v |-> res, e |-> err] = tfn
          /\ \A r \in Readers : rpc[r] = "ret" => rgot[r] = tfn)
  /\ [][xpc' # xpc => UNCHANGED <<done, res, err, tpc, tfn, cpc, carg>>]_vars

\* The context was done first and the call returned its error; the task then
\* resolved the Promise with "a", which a Result() has returned.
C11_Witness ==
  /\ xearly /\ ctxFirst /\ xpc = "ret" /\ xgot = [v |-> Nil, e |-> ctxErr]
  /\ TaskDone /\ ncalls = 1 /\ tfn = Resolve("a")
  /\ \E r \in Readers : rpc[r] = "ret" /\ rgot[r] = tfn

\* C12: when a Cancel call is the first finalizing call and has returned
\* before any other began, the Promise is rejected with the canceled error, a
\* Result() call does not wait (for the task or anything else) and returns
\* that rejection; a task that is running can still return, and the Reject or
\* Resolve its goroutine then calls never gets past the select.
C12_CancelRunning ==
  (firstRet = Cancel /\ ~raced) =>
     /\ done /\ res = Cancel.v /\ err = Cancel.e
     /\ \A r \in Readers :
          /\ rpc[r] = "await" => ENABLED ResultAwait(r)
          /\ rpc[r] = "ret" => rgot[r] = Cancel
     /\ tpc = "run" => ENABLED TaskReturn
     /\ cpc[TaskCaller] \in {"idle", "select"}

\* Cancel came first; the task's function ran and returned "a", its Resolve
\* has returned, and a Result() has returned the cancellation.
C12_Witness ==
  /\ firstRet = Cancel /\ ~raced
  /\ TaskDone /\ tfn = Resolve("a")
  /\ \E r \in Readers : rpc[r] = "ret" /\ rgot[r] = Cancel

\* C13: whenever a Canceled() call returns, it returns true if and only if
\* the Promise is done and its stored error is ErrCanceled: false while the
\* Promise is pending, when it is resolved, and when it is rejected with
\* another error.
C13_CanceledIff ==
  [][(qpc # "ret" /\ qpc' = "ret") => (qgot' = (done /\ err = ErrCanceled))]_vars

\* A Canceled() call has returned true.
C13_Witness == qpc = "ret" /\ qgot /\ done /\ err = ErrCanceled

C15_Verbatim ==
  \A t \in Tasks : fn[t] # None =>
     /\ prom[t].done
     /\ fn[t].e = Nil => (prom[t].res = fn[t].v /\ prom[t].err = Nil)
     /\ fn[t].e # Nil => Rejected(prom[t], fn[t].e)

\* One task resolved with its function's value, another rejected with its
\* function's error.
C15_Witness ==
  \E t1 \in Tasks, t2 \in Tasks :
     /\ fn[t1] = Resolve("a") /\ prom[t1] = [done |-> TRUE, res |-> "a", err |-> Nil]
     /\ fn[t2] = Reject("e") /\ Rejected(prom[t2], "e")

(***************************************************************************)
(* Claims about WhenAll and WhenAny, checked under SpecWhen.  They are     *)
(* about a composite whose function a worker ran to its return.            *)
(***************************************************************************)
Succeeded(i) == inp[i].done /\ inp[i].err = Nil
Failed(i) == inp[i].done /\ inp[i].err # Nil
Lowest(S) == CHOOSE m \in S : \A x \in S : m <= x

\* C16: when every input has succeeded and WhenAll's function has returned,
\* the composite is resolved with a list as long as the input list whose i-th
\* element is the value of the i-th input, in whatever order the inputs were
\* finalized.
C16_WhenAllOrder ==
  (kind = "all" /\ kpc = "finalized" /\ \A i \in 1..kn : Succeeded(i)) =>
     /\ comp.done
     /\ comp.err = Nil
     /\ Len(comp.res) = kn
     /\ \A i \in 1..kn : comp.res[i] = inp[i].res

\* WhenAll over three inputs has resolved with their three values in order.
C16_Witness ==
  /\ kind = "all" /\ kn = 3 /\ kpc = "finalized"
  /\ comp.err = Nil
  /\ comp.res = <<InputValues[1], InputValues[2], InputValues[3]>>

\* C17: when some input has failed and WhenAll's function has returned, the
\* composite is rejected with the error of the failed input of lowest index,
\* whichever input failed first in time.
C17_WhenAllFirstError ==
  (kind = "all" /\ kpc = "finalized" /\ \E i \in 1..kn : Failed(i)) =>
     /\ comp.done
     /\ comp.err = inp[Lowest({i \in 1..kn : Failed(i)})].err
     /\ comp.res = Nil

\* The second and the third input failed, the third before WhenAll's function
\* returned; the composite carries the second's error.
C17_Witness ==
  /\ kind = "all" /\ kn = 3 /\ kpc = "finalized"
  /\ Succeeded(1) /\ Failed(2) /\ Failed(3) /\ 3 \notin kleft
  /\ comp.err = InputErrs[2]

\* C18: when some input has succeeded and WhenAny's function has returned,
\* the composite is resolved with the value of the succeeded input of lowest
\* index, and every input before that one is done with an error.
C18_WhenAnyFirstValue ==
  (kind = "any" /\ kpc = "finalized" /\ \E i \in 1..kn : Succeeded(i)) =>
     LET j == Lowest({i \in 1..kn : Succeeded(i)}) IN
       /\ comp.done
       /\ comp.err = Nil
       /\ comp.res = inp[j].res
       /\ \A i \in 1..(j - 1) : Failed(i)

\* The first input failed, the second and the third succeeded, the third
\* before WhenAny's function returned; the composite carries the second's value.
C18_Witness ==
  /\ kind = "any" /\ kn = 3 /\ kpc = "finalized"
  /\ Failed(1) /\ Succeeded(2) /\ Succeeded(3) /\ 3 \notin kleft
  /\ comp.err = Nil /\ comp.res = InputValues[2]

\* C19: when the input list is not empty, every input has failed and
\* WhenAny's function has returned, the composite is rejected with the error
\* of the last input of the list.
C19_WhenAnyLastError ==
  (kind = "any" /\ kn > 0 /\ kpc = "finalized" /\ \A i \in 1..kn : Failed(i)) =>
     /\ comp.done
     /\ comp.err = inp[kn].err
     /\ comp.res = Nil

\* WhenAny over three failed inputs is rejected with the third's error.
C19_Witness ==
  /\ kind = "any" /\ kn = 3 /\ kpc = "finalized"
  /\ \A i \in 1..kn : Failed(i)
  /\ comp.err = InputErrs[3]

\* C20: no step of WhenAll changes an input Promise: an input is pending
\* until its own task finalizes it, and then holds what that task gave it,
\* also when WhenAll's function has returned on the failure of another input.
C20_WhenAllFrame ==
  /\ [][(kind = "all" /\ (kpc' # kpc \/ kidx' # kidx)) => inp' = inp]_vars
  /\ [](kind = "all" =>
          \A i \in 1..kn :
             /\ iown[i] = None => ~inp[i].done
             /\ iown[i] # None =>
                  (inp[i].done /\ Result(inp[i]) = iown[i] /\ inp[i].err # ErrCanceled))

\* WhenAll failed while an input was pending, and that input has since been
\* resolved by its own task.
C20_Witness ==
  /\ kind = "all" /\ kpc = "finalized" /\ comp.err # Nil
  /\ \E i \in kleft : inp[i].done /\ Result(inp[i]) = Resolve(InputValues[i])

(***************************************************************************)
(* Claims about CancelAll and RejectAll, checked under SpecAll.            *)
(***************************************************************************)
\* C21: CancelAll (RejectAll with e) leaves every Promise its loop found
\* pending finalized with ErrCanceled (with e), and every Promise it found
\* finalized with the outcome it had; when it returns no Promise of the list
\* is pending.
C21_AllFinalized ==
  /\ \A i \in 1..kn : i < kidx =>
        /\ ~awas[i].done =>
              Rejected(inp[i], IF kind = "cancelall" THEN ErrCanceled ELSE kerr)
        /\ awas[i].done => (inp[i] = awas[i] /\ Result(inp[i]) = iown[i])
  /\ kpc = "ret" => \A i \in 1..kn : inp[i].done

\* CancelAll over three Promises has returned: it found the first resolved
\* and left it so, and canceled the third.
C21_Witness ==
  /\ kind = "cancelall" /\ kn = 3 /\ kpc = "ret"
  /\ awas[1].done /\ Result(inp[1]) = Resolve(InputValues[1])
  /\ ~awas[3].done /\ Rejected(inp[3], ErrCanceled)

(***************************************************************************)
(* Claims about the Runner, checked under SpecRunner.                      *)
(***************************************************************************)
\* C22: when the Wait call that shut the Runner down has returned, r.promises
\* is empty and every task whose item was accepted (among them the tasks that
\* were queued or running when the call closed r.stoping) has been executed:
\* its Promise holds what its own function returned, never ErrExecutionDone.
C22_DrainExecutesAll ==
  \A s \in Stoppers : (closer = s /\ spc[s] = "ret") =>
     /\ promCh = <<>>
     /\ \A t \in Tasks : (epc[t] = "ret" \/ t \in atStop.queued \cup atStop.inflight) =>
           /\ fn[t] # None
           /\ prom[t].done
           /\ Outcome(prom[t]) = FinalizeArgs(fn[t])
           /\ prom[t].err # ErrExecutionDone

\* Wait found the only worker running a task and another task queued, and
\* has returned with both executed.
C22_Witness ==
  /\ closer # 0 /\ spc[closer] = "ret"
  /\ atStop.allBusy /\ atStop.inflight # {} /\ atStop.queued # {}
  /\ \A t \in atStop.queued : fn[t] # None /\ Outcome(prom[t]) = FinalizeArgs(fn[t])

\* C23: an AsyncOnRunner call that begins after a Wait call has returned
\* returns from its first select with a Promise rejected with
\* ErrExecutionDone; its item is never queued and its function never runs.
C23_AsyncAfterWait ==
  \A t \in Tasks : lateExec[t] =>
     /\ epc[t] = "rejected"
     /\ Rejected(prom[t], ErrExecutionDone)
     /\ NeverRan(t)
     /\ ~InQueue(t) /\ ~InSendq(t)

\* A submission made after Wait returned has come back rejected, while an
\* earlier one was executed.
C23_Witness ==
  /\ \E t \in Tasks : lateExec[t] /\ Rejected(prom[t], ErrExecutionDone)
  /\ \E u \in Tasks : epc[u] = "ret" /\ fn[u] # None

\* C24: concurrent Wait calls close r.stoping exactly once: no call runs
\* close(r.stoping) on the closed channel (which panics).
C24_StopingClosedOnce == crash # "close(r.stoping)"

\* C25: over every interleaving of AsyncOnRunner with Wait, no submitter
\* sends on r.promises after Wait has closed it (which panics).
C25_NoSendOnClosed == crash # "send on r.promises"

(***************************************************************************)
(* Claims about the Executor with two workers, checked under SpecPool.     *)
(***************************************************************************)
\* C26: each task is consumed one way.  A worker starts a task only if its
\* function was never invoked before and its Promise is pending; no two
\* workers hold the same task; a function that returned is not run again;
\* and a Promise rejected with ErrExecutorStopped belongs to a task whose
\* function was never invoked, is not queued, and was rejected with the stop
\* signal set.
C26_ConsumedOnce ==
  /\ [][\A t \in Tasks :
          /\ \A w \in Workers :
                (wtask'[w] = t /\ wtask[w] # t) => (NeverRan(t) /\ ~prom[t].done)
          /\ fn[t] # None => fn'[t] = fn[t]
          /\ (Rejected(prom'[t], ErrExecutorStopped) /\ ~prom[t].done) => stopCh]_vars
  /\ [](\A t \in Tasks :
          /\ Cardinality({w \in Workers : wtask[w] = t}) <= 1
          /\ Rejected(prom[t], ErrExecutorStopped) =>
                (stopCh /\ NeverRan(t) /\ ~InQueue(t) /\ ~InSendq(t)))

\* Two workers run two tasks at the same time, and a third task has been
\* rejected with ErrExecutorStopped.
C26_Witness ==
  /\ wtask[1] # 0 /\ wtask[2] # 0 /\ wtask[1] # wtask[2]
  /\ \E t \in Tasks : Rejected(prom[t], ErrExecutorStopped) /\ NeverRan(t)

(***************************************************************************)
(* Claims about the order of the queue, checked under SpecFifo.            *)
(***************************************************************************)
\* C27: the queue is FIFO.  Exec calls are made one after another, in the
\* order of the task numbers; when a worker takes a task to run it, every
\* task submitted before it has been taken by a worker already.  The order
\* in which the functions return is free.
C27_Fifo ==
  [][\A t \in Tasks : (NeverRan(t) /\ ~NeverRan(t)') =>
        \A u \in Tasks : u < t => ~NeverRan(u)]_vars

\* The first two tasks waited in the queue together and were taken in
\* order, and the second one's function has returned while the first one's
\* is still running.
C27_Witness ==
  /\ \E w \in Workers : wtask[w] = 1
  /\ fn[1] = None /\ fn[2] # None
  /\ InQueue(3)

(***************************************************************************)
(* Claims about the callbacks, checked under SpecCallback.                 *)
(***************************************************************************)
\* C28: the callbacks of a Promise run at most once, and only in the call
\* that closed done, after it closed it: whenever a call is about to run them
\* or has run them, done is closed, no other call is about to run them, and
\* they have not run before.  A call that began after another had returned
\* never gets past its select.  When no two calls overlapped, the callbacks
\* get the pair that is stored in the Promise.
C28_CallbacksOnce ==
  /\ Cardinality({c \in Callers : cpc[c] = "callbacks"}) + cbcount <= 1
  /\ (cbcount > 0 \/ \E c \in Callers : cpc[c] = "callbacks") => done
  /\ \A c \in Callers : late[c] => cpc[c] = "select"
  /\ (cbcount > 0 /\ ~raced) => (cbargs.v = res /\ cbargs.e = err /\ cbargs = firstRet)

\* Two calls that overlapped have both returned; the callbacks ran once.
C28_Witness ==
  /\ ncalls = 2 /\ raced /\ \A c \in Callers : cpc[c] = "idle"
  /\ ~panicked /\ cbcount = 1 /\ done

(***************************************************************************)
(* Termination of Stop, checked under SpecStartedFair.                     *)
(***************************************************************************)
\* C29: Stop terminates: with task functions that return, a Stop call that
\* has begun returns in the end.  Stop calls are made one after another, so
\* at most one is in flight, and it is no longer in flight once it returned.
StopInFlight == \E s \in Stoppers : spc[s] \notin {"idle", "ret"}

C29_StopTerminates == StopInFlight ~> ~StopInFlight

\* Stop found every worker running a task and a task queued; it has
\* returned after the workers exited and its cleanup loop rejected that task.
C29_Witness ==
  /\ closer # 0 /\ spc[closer] = "ret"
  /\ atStop.allBusy
  /\ \E t \in atStop.queued : Rejected(prom[t], ErrExecutorStopped)
  /\ \A w \in Workers : Started(w) => wpc[w] = "exit"

(***************************************************************************)
(* Claims about combinators on an Executor, checked under SpecWhenExec.    *)
(***************************************************************************)
\* C30: no combinator deadlock.  When the inputs of every WhenAll / WhenAny
\* come from earlier calls on the same Executor, the Executor is not stopped
\* and plain functions return, the composite Promise of every combinator
\* call that has returned is finalized in the end.  A call returns once and
\* a finalized Promise stays finalized, so this is: from some moment on,
\* every combinator call that has returned has its composite finalized.
C30_NoCombinatorDeadlock ==
  <>[](\A t \in Tasks : (tkind[t] # "plain" /\ epc[t] = "ret") => prom[t].done)

\* WhenAll over a plain task has returned its composite Promise; a worker
\* holds the function of the WhenAll, blocked on its input, which the other
\* worker is running.
C30_Witness ==
  /\ conc = 2
  /\ tkind[1] = "plain" /\ tkind[2] = "all" /\ tdeps[2] = {1}
  /\ epc[2] = "ret" /\ ~prom[2].done
  /\ \E w \in Workers : wtask[w] = 2 /\ wpc[w] = "run"
  /\ \E w \in Workers : wtask[w] = 1 /\ wpc[w] = "run"
  /\ TaskReturns(2) = {}

=============================================================================
